---- MODULE Spec2Model ----
(***************************************************************************)
(* A model of Icomaker.py: the pixel functions (get_alpha_bbox,            *)
(* make_background_transparent, trim_image, pad_to_square), the per-file   *)
(* pipeline process_image and the batch driver main.                       *)
(*                                                                         *)
(* An image is a record [mode, transparency, palette, width, height, px].  *)
(* px maps <<x, y>> (0-based, origin top-left, as PIL does) to the pixel:  *)
(* a 4-tuple <<R, G, B, A>> in mode "RGBA", a 3-tuple <<R, G, B>> in mode  *)
(* "RGB", an index into palette in mode "P".  transparency says whether    *)
(* "transparency" is a key of image.info.                                  *)
(***************************************************************************)
EXTENDS Integers, Sequences, FiniteSets, TLC

VARIABLES
    fimg,      \* SpecFn: the image handed to the function under study
    ftol,      \* SpecFn: the tolerance handed to make_background_transparent
    fop,       \* SpecFn: which function was applied ("input" before any)
    fres,      \* SpecFn: the image the function returned
    fsize,     \* SpecPipe: the size handed to resize
    args,      \* main: the parsed command line (size, tolerance, overwrite, quiet)
    folder,    \* main: the source folder, NoFolder or a sequence of entries
    pngs,      \* main: the list find_pngs returned
    dstDir,    \* main: state of the destination directory
    dst,       \* main: name -> state of the destination path dst_dir / name
    idx,       \* main: position of the for loop in pngs (1-based)
    pc,        \* main: "start", "loop", "done" or "crashed"
    out,       \* main: the lines printed so far
    called,    \* main: positions for which process_image was called
    skipped,   \* main: positions the exists rule skipped
    failed,    \* main: positions whose process_image raised, with the step that raised
    reached,   \* main: the state of each destination path when the loop reached it
    last,      \* main: the trace of the last process_image call
    exitCode   \* main: the value main returned (NoCode before it returns)

fnVars == <<fimg, ftol, fop, fres, fsize>>
mainVars == <<args, folder, pngs, dstDir, dst, idx, pc, out, called, skipped, failed,
              reached, last, exitCode>>
vars == <<fimg, ftol, fop, fres, fsize, args, folder, pngs, dstDir, dst, idx, pc, out,
          called, skipped, failed, reached, last, exitCode>>

-----------------------------------------------------------------------------
(* Bounds of the model *)

\* images have at most MaxPixels pixels (width * height)
MaxPixels == 5
\* tolerances are drawn from 0 .. MaxTol
MaxTol == 1
\* the source folder holds at most MaxFiles entries
MaxFiles == 2
\* --size is drawn from 0 .. MaxSize
MaxSize == 1

-----------------------------------------------------------------------------
(* Pixels and images *)

\* the colours the model's images are drawn from (RGBA)
Transparent == <<0, 0, 0, 0>>
Opaque == <<0, 0, 0, 255>>
Semi == <<2, 1, 0, 128>>
Palette == <<Transparent, Opaque, Semi>>

\* the colours of images without an alpha channel (RGB)
OpaqueRGB == {<<0, 0, 0>>, <<2, 1, 0>>, <<9, 9, 9>>}

Coords(w, h) == (0 .. w - 1) \X (0 .. h - 1)

Shapes == {s \in (1 .. MaxPixels) \X (1 .. MaxPixels) : s[1] * s[2] <= MaxPixels}

MkImage(mode, transparency, palette, w, h, px) ==
    [mode |-> mode, transparency |-> transparency, palette |-> palette,
     width |-> w, height |-> h, px |-> px]

RGBAImages ==
    UNION {{MkImage("RGBA", FALSE, <<>>, s[1], s[2], px) :
              px \in [Coords(s[1], s[2]) -> {Transparent, Opaque, Semi}]} : s \in Shapes}

RGBImages ==
    UNION {{MkImage("RGB", FALSE, <<>>, s[1], s[2], px) :
              px \in [Coords(s[1], s[2]) -> OpaqueRGB]} : s \in Shapes}

PImages ==
    UNION {{MkImage("P", t, Palette, s[1], s[2], px) :
              px \in [Coords(s[1], s[2]) -> 1 .. Len(Palette)], t \in BOOLEAN} : s \in Shapes}

Images == RGBAImages \cup RGBImages \cup PImages

Abs(n) == IF n < 0 THEN 0 - n ELSE n

Max(a, b) == IF a > b THEN a ELSE b

\* img.convert("RGBA"): the pixel of every mode as an <<R, G, B, A>> tuple
ConvertRGBA(img) ==
    [img EXCEPT
        !.mode = "RGBA",
        !.transparency = FALSE,
        !.palette = <<>>,
        !.px = [p \in DOMAIN img.px |->
                  CASE img.mode = "RGBA" -> img.px[p]
                    [] img.mode = "RGB" -> <<img.px[p][1], img.px[p][2], img.px[p][3], 255>>
                    [] OTHER ->
                         LET c == img.palette[img.px[p]]
                         IN <<c[1], c[2], c[3], IF img.transparency THEN c[4] ELSE 255>>]]

-----------------------------------------------------------------------------
(* get_alpha_bbox *)

None == <<>>

\* GetBBox with the right and bottom edges inclusive
GetBBoxInclusive(band, w, h) ==
    LET nz == {p \in Coords(w, h) : band[p] # 0}
        xs == {p[1] : p \in nz}
        ys == {p[2] : p \in nz}
        lo(S) == CHOOSE m \in S : \A n \in S : m <= n
        hi(S) == CHOOSE m \in S : \A n \in S : m >= n
    IN IF nz = {} THEN None ELSE <<lo(xs), lo(ys), hi(xs), hi(ys)>>

\* Image.getbbox() of the alpha band: the box of the non-zero values, None if all are zero
GetBBox(band, w, h) ==
    LET nz == {p \in Coords(w, h) : band[p] # 0}
        xs == {p[1] : p \in nz}
        ys == {p[2] : p \in nz}
        lo(S) == CHOOSE m \in S : \A n \in S : m <= n
        hi(S) == CHOOSE m \in S : \A n \in S : m >= n
    IN IF nz = {} THEN None ELSE <<lo(xs), lo(ys), hi(xs) + 1, hi(ys) + 1>>

get_alpha_bbox(image) ==
    IF image.mode \in {"RGBA", "LA"} \/ (image.mode = "P" /\ image.transparency)
    THEN LET rgba == ConvertRGBA(image)
             alpha == [p \in DOMAIN rgba.px |-> rgba.px[p][4]]
         IN GetBBox(alpha, image.width, image.height)
    ELSE <<0, 0, image.width, image.height>>

-----------------------------------------------------------------------------
(* make_background_transparent *)

\* sum(abs(current[i] - bg_color[i]) for i in range(3))
ColorDiff(current, bg_color) ==
    Abs(current[1] - bg_color[1]) + Abs(current[2] - bg_color[2])
        + Abs(current[3] - bg_color[3])

\* KeyPixels with the tolerance compared unscaled (diff <= tolerance)
KeyPixelsUnscaled(px, bg_color, tolerance) ==
    [p \in DOMAIN px |->
        IF ColorDiff(px[p], bg_color) <= tolerance
        THEN <<px[p][1], px[p][2], px[p][3], 0>>
        ELSE px[p]]

\* the loop of lines 71-79: every pixel is visited once and its new value depends
\* on its own old value and on bg_color (a tuple read before the loop) only
KeyPixels(px, bg_color, tolerance) ==
    [p \in DOMAIN px |->
        IF ColorDiff(px[p], bg_color) <= tolerance * 3
        THEN <<px[p][1], px[p][2], px[p][3], 0>>
        ELSE px[p]]

\* make_background_transparent without the early return of lines 60-62
KeyAlways(img, tolerance) ==
    LET rgba == IF img.mode # "RGBA" THEN ConvertRGBA(img) ELSE img
    IN [rgba EXCEPT !.px = KeyPixels(rgba.px, rgba.px[<<0, 0>>], tolerance)]

make_background_transparent(img, tolerance) ==
    LET rgba == IF img.mode # "RGBA" THEN ConvertRGBA(img) ELSE img
        bg_color == rgba.px[<<0, 0>>]
    IN IF Len(bg_color) = 4 /\ bg_color[4] = 0
       THEN rgba
       ELSE [rgba EXCEPT !.px = KeyPixels(rgba.px, bg_color, tolerance)]

\* what make_background_transparent prints (lines 61, 64, 81)
KeyLines(img, tolerance) ==
    LET rgba == IF img.mode # "RGBA" THEN ConvertRGBA(img) ELSE img
        bg_color == rgba.px[<<0, 0>>]
        changed_count == Cardinality({p \in DOMAIN rgba.px :
                             ColorDiff(rgba.px[p], bg_color) <= tolerance * 3})
    IN IF Len(bg_color) = 4 /\ bg_color[4] = 0
       THEN <<[kind |-> "KeyAlreadyTransparent", file |-> 0, err |-> "", n |-> 0]>>
       ELSE <<[kind |-> "KeyDetected", file |-> 0, err |-> "", n |-> tolerance],
              [kind |-> "KeyCount", file |-> 0, err |-> "", n |-> changed_count]>>

-----------------------------------------------------------------------------
(* trim_image *)

\* img.crop(bbox) for a box inside the image
Crop(img, bbox) ==
    [img EXCEPT
        !.width = bbox[3] - bbox[1],
        !.height = bbox[4] - bbox[2],
        !.px = [p \in Coords(bbox[3] - bbox[1], bbox[4] - bbox[2]) |->
                  img.px[<<p[1] + bbox[1], p[2] + bbox[2]>>]]]

trim_image(img) ==
    LET bbox == get_alpha_bbox(img)
    IN IF bbox = None THEN img
       ELSE IF bbox = <<0, 0, img.width, img.height>> THEN img
       ELSE Crop(img, bbox)

-----------------------------------------------------------------------------
(* pad_to_square *)

\* PIL's 8-bit blend of paste() with a mask: in1 is the canvas byte, in2 the
\* pasted byte; the quotient by 255 is rounded as ((t >> 8) + t) >> 8, t = a + 128
Blend(mask, in1, in2) ==
    LET t == in1 * (255 - mask) + in2 * mask + 128
    IN ((t \div 256) + t) \div 256

\* new_im.paste(img, upper_left, img): each of the four bytes of a pixel is
\* blended with the canvas under the pasted image's own alpha
Paste(canvas, img, upper_left) ==
    [canvas EXCEPT
        !.px = [p \in DOMAIN canvas.px |->
                  LET q == <<p[1] - upper_left[1], p[2] - upper_left[2]>>
                  IN IF q \in DOMAIN img.px
                     THEN [i \in 1 .. 4 |-> Blend(img.px[q][4], canvas.px[p][i], img.px[q][i])]
                     ELSE canvas.px[p]]]

pad_to_square(img) ==
    LET width == img.width
        height == img.height
        size == Max(width, height)
        rgba == IF img.mode # "RGBA" THEN ConvertRGBA(img) ELSE img
        new_im == MkImage("RGBA", FALSE, <<>>, size, size,
                          [p \in Coords(size, size) |-> <<0, 0, 0, 0>>])
        upper_left == <<(size - width) \div 2, (size - height) \div 2>>
    IN Paste(new_im, rgba, upper_left)

-----------------------------------------------------------------------------
(* process_image *)

\* what a file on disk holds when it is no decodable image
Corrupt == MkImage("corrupt", FALSE, <<>>, 0, 0, <<>>)

NoImage == MkImage("none", FALSE, <<>>, 0, 0, <<>>)

NoError == ""

\* Image.open(src_path) followed by the palette conversion of lines 115-116
OpenImage(data) ==
    IF data.mode = "P" THEN ConvertRGBA(data) ELSE data

\* a resize that keeps the dimensions of its input
ResizeKeep(img, size) ==
    [mode |-> img.mode, width |-> img.width, height |-> img.height, resampled |-> img]

\* squared.resize((size, size), Image.LANCZOS): a size x size raster resampled from
\* img.  The resampled pixel values are a function of img and size, kept as the pair.
Resize(img, size) ==
    [mode |-> img.mode, width |-> size, height |-> size, resampled |-> img]

NoResized == [mode |-> "none", width |-> 0, height |-> 0, resampled |-> NoImage]

Line(kind, file, err, n) == [kind |-> kind, file |-> file, err |-> err, n |-> n]

\* The run of process_image on one file: the images of each stage, the lines it
\* prints, and the step that raised (NoError if none).  dirState is the state of
\* dst_path.parent, target the state of dst_path.
process_image(name, data, target, dirState, size, tolerance) ==
    LET processing == <<Line("Processing", name, NoError, 0)>>
        img == OpenImage(data)
        keyed == make_background_transparent(img, tolerance)
        trimmed == trim_image(keyed)
        squared == pad_to_square(trimmed)
        resized == Resize(squared, size)
        stop(err, lines, i, k, t, s, r, dir) ==
            [err |-> err, lines |-> lines, opened |-> i, keyed |-> k, trimmed |-> t,
             squared |-> s, resized |-> r, mkdir |-> dir]
    IN IF data.mode = "corrupt"
       THEN stop("decode", processing, NoImage, NoImage, NoImage, NoImage, NoResized, FALSE)
       ELSE IF size < 1
       THEN stop("resize", processing \o KeyLines(img, tolerance),
                 img, keyed, trimmed, squared, NoResized, FALSE)
       ELSE IF dirState = "blocked"
       THEN stop("mkdir", processing \o KeyLines(img, tolerance),
                 img, keyed, trimmed, squared, resized, FALSE)
       ELSE IF target.state = "blocked"
       THEN stop("write", processing \o KeyLines(img, tolerance),
                 img, keyed, trimmed, squared, resized, TRUE)
       ELSE stop(NoError, processing \o KeyLines(img, tolerance),
                 img, keyed, trimmed, squared, resized, TRUE)

NoTrace ==
    [err |-> NoError, lines |-> <<>>, opened |-> NoImage, keyed |-> NoImage,
     trimmed |-> NoImage, squared |-> NoImage, resized |-> NoResized, mkdir |-> FALSE]

-----------------------------------------------------------------------------
(* find_pngs and the files of a run *)

\* a source folder that does not exist
NoFolder == [exists |-> FALSE, entries |-> <<>>]

\* p.suffix.lower()
Lower(suffix) == IF suffix = ".PNG" THEN ".png" ELSE suffix

IsPng(p) == p.is_file /\ Lower(p.suffix) = ".png"

find_pngs(dir) ==
    IF ~dir.exists THEN <<>>
    ELSE SelectSeq(dir.entries, IsPng)

\* the images the files of a run hold
SampleA == MkImage("RGBA", FALSE, <<>>, 2, 1, (<<0, 0>> :> Opaque) @@ (<<1, 0>> :> Semi))
SampleB == MkImage("P", TRUE, Palette, 1, 2, (<<0, 0>> :> 1) @@ (<<0, 1>> :> 2))

\* what one entry of the source folder can be (its name is its position)
EntryKinds ==
    {[is_file |-> TRUE, suffix |-> ".png", data |-> SampleA],
     [is_file |-> TRUE, suffix |-> ".PNG", data |-> SampleB],
     [is_file |-> TRUE, suffix |-> ".png", data |-> Corrupt],
     [is_file |-> TRUE, suffix |-> ".jpg", data |-> SampleA],
     [is_file |-> FALSE, suffix |-> ".png", data |-> NoImage]}

Folders ==
    {NoFolder} \cup
    UNION {{[exists |-> TRUE,
             entries |-> [i \in 1 .. n |-> [name |-> i, is_file |-> k[i].is_file,
                                            suffix |-> k[i].suffix, data |-> k[i].data]]] :
              k \in [1 .. n -> EntryKinds]} : n \in 0 .. MaxFiles}

\* states of a destination path: no file, a file left by an earlier run, a path
\* that exists and cannot be written (a directory, a read-only file), or the PNG
\* this run saved
Absent == [state |-> "absent", image |-> NoResized]
OldIcon == [state |-> "old", image |-> NoResized]
Blocked == [state |-> "blocked", image |-> NoResized]
Written(resized) == [state |-> "written", image |-> resized]

\* target.exists()
Exists(target) == target.state # "absent"

-----------------------------------------------------------------------------
(* main *)

NoCode == -1

Names == 1 .. MaxFiles

\* the command lines of the model (parse_args)
Args ==
    [size : 0 .. MaxSize, tolerance : 0 .. MaxTol, overwrite : BOOLEAN, quiet : BOOLEAN]

\* the destination paths a run can start from: files exist under dst only if
\* the directory does, and only the paths the loop looks at are drawn
DstStates(dir, dirState) ==
    {d \in [Names -> {Absent, OldIcon, Blocked}] :
        \A n \in Names :
            (dirState # "exists" \/ n > Len(dir.entries) \/ ~IsPng(dir.entries[n]))
                => d[n] = Absent}

\* the skip rule with the flag inverted
SkipCondInverted(target, overwrite) == Exists(target) /\ overwrite

\* the "if target.exists() and not args.overwrite" of line 169
SkipCond(target, overwrite) == Exists(target) /\ ~overwrite

\* a handler that catches the OSError of mkdir and save only
CaughtOSErrorOnly(err) == err \in {"mkdir", "write"}

\* a handler that lets the error of mkdir through
CaughtButMkdir(err) == err \in {"decode", "resize", "write"}

\* "except Exception" of line 176: the classes raised by the steps of process_image
\* (UnidentifiedImageError, ValueError, OSError) all derive from Exception
Caught(err) == err \in {"decode", "resize", "mkdir", "write"}

InitMain ==
    /\ args \in Args
    /\ folder \in Folders
    /\ dstDir \in {"exists", "missing", "blocked"}
    /\ dst \in DstStates(folder, dstDir)
    /\ pngs = <<>>
    /\ idx = 0
    /\ pc = "start"
    /\ out = <<>>
    /\ called = {}
    /\ skipped = {}
    /\ failed = {}
    /\ reached = <<>>
    /\ last = NoTrace
    /\ exitCode = NoCode

\* lines 155-165: scan the folder, print the two header lines, return 0 on no file
Start ==
    /\ pc = "start"
    /\ pngs' = find_pngs(folder)
    /\ out' = IF ~args.quiet
              THEN <<Line("Found", 0, NoError, Len(pngs')), Line("OutputInto", 0, NoError, 0)>>
              ELSE <<>>
    /\ IF pngs' = <<>>
       THEN pc' = "done" /\ exitCode' = 0 /\ idx' = idx
       ELSE pc' = "loop" /\ exitCode' = exitCode /\ idx' = 1
    /\ UNCHANGED <<fnVars, args, folder, dstDir, dst, called, skipped, failed, reached, last>>

\* lines 167-172: the destination exists and --overwrite is unset
Skip ==
    /\ pc = "loop"
    /\ idx <= Len(pngs)
    /\ LET p == pngs[idx]
           target == dst[p.name]
       IN /\ SkipCond(target, args.overwrite)
          /\ out' = IF ~args.quiet
                    THEN Append(out, Line("Skipping", p.name, NoError, 0))
                    ELSE out
          /\ reached' = Append(reached, target)
    /\ skipped' = skipped \cup {idx}
    /\ idx' = idx + 1
    /\ UNCHANGED <<fnVars, args, folder, pngs, dstDir, dst, pc, called, failed, last, exitCode>>

\* lines 167-177: the file is handed to process_image; an error it raises is
\* caught and reported, any other leaves main
Process ==
    /\ pc = "loop"
    /\ idx <= Len(pngs)
    /\ LET p == pngs[idx]
           target == dst[p.name]
           run == process_image(p.name, p.data, target, dstDir, args.size, args.tolerance)
       IN /\ ~SkipCond(target, args.overwrite)
          /\ reached' = Append(reached, target)
          /\ last' = run
          /\ dstDir' = IF run.mkdir THEN "exists" ELSE dstDir
          /\ dst' = IF run.err = NoError
                    THEN [dst EXCEPT ![p.name] = Written(run.resized)]
                    ELSE dst
          /\ failed' = IF run.err = NoError THEN failed
                       ELSE failed \cup {[pos |-> idx, err |-> run.err]}
          /\ IF run.err = NoError
             THEN out' = out \o run.lines /\ pc' = pc /\ idx' = idx + 1
             ELSE IF Caught(run.err)
             THEN /\ out' = (out \o run.lines) \o <<Line("Failed", p.name, run.err, 0)>>
                  /\ pc' = pc
                  /\ idx' = idx + 1
             ELSE out' = out \o run.lines /\ pc' = "crashed" /\ idx' = idx
    /\ called' = called \cup {idx}
    /\ UNCHANGED <<fnVars, args, folder, pngs, skipped, exitCode>>

\* line 179: the loop is over
Return ==
    /\ pc = "loop"
    /\ idx > Len(pngs)
    /\ pc' = "done"
    /\ exitCode' = 0
    /\ UNCHANGED <<fnVars, args, folder, pngs, dstDir, dst, idx, out, called, skipped,
                   failed, reached, last>>

-----------------------------------------------------------------------------
(* The pixel functions applied to every image of the bounds *)

InitFn ==
    /\ fimg \in Images
    /\ ftol = 0
    /\ fsize = 0
    /\ fop = "input"
    /\ fres = fimg

FnKey ==
    /\ fop = "input"
    /\ \E tolerance \in 0 .. MaxTol :
          /\ ftol' = tolerance
          /\ fres' = make_background_transparent(fimg, tolerance)
    /\ fop' = "key"
    /\ UNCHANGED <<fimg, fsize, mainVars>>

FnTrim ==
    /\ fop = "input"
    /\ fres' = trim_image(fimg)
    /\ fop' = "trim"
    /\ UNCHANGED <<fimg, ftol, fsize, mainVars>>

FnPad ==
    /\ fop = "input"
    /\ fres' = pad_to_square(fimg)
    /\ fop' = "pad"
    /\ UNCHANGED <<fimg, ftol, fsize, mainVars>>

-----------------------------------------------------------------------------
(* The stages of process_image, one at a time, on every image of the bounds *)

InitPipe ==
    /\ fimg \in Images
    /\ ftol \in 0 .. MaxTol
    /\ fsize = 0
    /\ fop = "file"
    /\ fres = fimg

\* lines 112-116
PipeOpen ==
    /\ fop = "file"
    /\ fres' = OpenImage(fimg)
    /\ fop' = "opened"
    /\ UNCHANGED <<fimg, ftol, fsize, mainVars>>

\* line 119 with the keyer run only for a non-zero tolerance
PipeKeyGated ==
    /\ fop = "opened"
    /\ fres' = IF ftol # 0 THEN make_background_transparent(fres, ftol)
               ELSE IF fres.mode # "RGBA" THEN ConvertRGBA(fres) ELSE fres
    /\ fop' = "keyed"
    /\ UNCHANGED <<fimg, ftol, fsize, mainVars>>

\* line 119
PipeKey ==
    /\ fop = "opened"
    /\ fres' = make_background_transparent(fres, ftol)
    /\ fop' = "keyed"
    /\ UNCHANGED <<fimg, ftol, fsize, mainVars>>

\* line 122
PipeTrim ==
    /\ fop = "keyed"
    /\ fres' = trim_image(fres)
    /\ fop' = "trimmed"
    /\ UNCHANGED <<fimg, ftol, fsize, mainVars>>

\* line 125
PipePad ==
    /\ fop = "trimmed"
    /\ fres' = pad_to_square(fres)
    /\ fop' = "squared"
    /\ UNCHANGED <<fimg, ftol, fsize, mainVars>>

\* line 128
PipeResize ==
    /\ fop = "squared"
    /\ \E size \in 1 .. MaxSize :
          /\ fsize' = size
          /\ fres' = Resize(fres, size)
    /\ fop' = "resized"
    /\ UNCHANGED <<fimg, ftol, mainVars>>

-----------------------------------------------------------------------------
(* Specifications *)

\* the state of the part a specification does not run
IdleMain ==
    /\ args = [size |-> 0, tolerance |-> 0, overwrite |-> FALSE, quiet |-> FALSE]
    /\ folder = NoFolder
    /\ pngs = <<>>
    /\ dstDir = "missing"
    /\ dst = [n \in Names |-> Absent]
    /\ idx = 0
    /\ pc = "idle"
    /\ out = <<>>
    /\ called = {}
    /\ skipped = {}
    /\ failed = {}
    /\ reached = <<>>
    /\ last = NoTrace
    /\ exitCode = NoCode

IdleFn ==
    /\ fimg = NoImage
    /\ ftol = 0
    /\ fsize = 0
    /\ fop = "idle"
    /\ fres = NoImage

Init == InitMain /\ IdleFn

FnInit == InitFn /\ IdleMain

PipeInit == InitPipe /\ IdleMain

Next == Start \/ Skip \/ Process \/ Return

Spec == Init /\ [][Next]_vars

NextFn == FnKey \/ FnTrim \/ FnPad

SpecFn == FnInit /\ [][NextFn]_vars

NextPipe == PipeOpen \/ PipeKey \/ PipeTrim \/ PipePad \/ PipeResize

SpecPipe == PipeInit /\ [][NextPipe]_vars

-----------------------------------------------------------------------------
(* Properties of the pixel functions (SpecFn) *)

\* the pixels of the input as <<R, G, B, A>> tuples
InPx == ConvertRGBA(fimg).px

RefPx == InPx[<<0, 0>>]

\* |R - Rref| + |G - Gref| + |B - Bref|
Distance(c, ref) ==
    (IF c[1] >= ref[1] THEN c[1] - ref[1] ELSE ref[1] - c[1])
    + (IF c[2] >= ref[2] THEN c[2] - ref[2] ELSE ref[2] - c[2])
    + (IF c[3] >= ref[3] THEN c[3] - ref[3] ELSE ref[3] - c[3])

\* C6: after make_background_transparent on an image whose pixel (0,0) has
\* alpha > 0, with a tolerance >= 0: every pixel within tolerance * 3 of pixel
\* (0,0) (sum of the R, G, B differences) has alpha 0 and its R, G, B, and every
\* other pixel has all four channels as in the input.
C6_KeyedByDistance ==
    (fop = "key" /\ RefPx[4] > 0 /\ ftol >= 0) =>
        /\ DOMAIN fres.px = DOMAIN InPx
        /\ \A p \in DOMAIN InPx :
              IF Distance(InPx[p], RefPx) <= ftol * 3
              THEN fres.px[p] = <<InPx[p][1], InPx[p][2], InPx[p][3], 0>>
              ELSE fres.px[p] = InPx[p]

\* a keying that makes one pixel transparent and leaves another, visible one alone
C6_Witness ==
    /\ fop = "key"
    /\ RefPx[4] > 0
    /\ ftol > 0
    /\ \E p \in DOMAIN InPx :
          /\ Distance(InPx[p], RefPx) > 0
          /\ InPx[p][4] > 0
          /\ fres.px[p][4] = 0
    /\ \E p \in DOMAIN InPx :
          /\ Distance(InPx[p], RefPx) > ftol * 3
          /\ fres.px[p] = InPx[p]

\* C10: after make_background_transparent on an image whose pixel (0,0) has
\* alpha 0, every pixel has the four channels of the input, for every tolerance.
C10_TransparentRefUntouched ==
    (fop = "key" /\ RefPx[4] = 0) => fres.px = InPx

\* a visible pixel with the R, G, B of the transparent reference pixel stays visible
C10_Witness ==
    /\ fop = "key"
    /\ RefPx[4] = 0
    /\ \E p \in DOMAIN InPx :
          /\ Distance(InPx[p], RefPx) = 0
          /\ InPx[p][4] > 0
          /\ fres.px[p] = InPx[p]

HasAlphaChannel(img) ==
    img.mode \in {"RGBA", "LA"} \/ (img.mode = "P" /\ img.transparency)

Visible == {p \in DOMAIN InPx : InPx[p][4] > 0}

\* fres is fimg cropped to the half-open box (l, t, r, b)
IsCropTo(l, t, r, b) ==
    /\ fres.mode = fimg.mode
    /\ fres.width = r - l
    /\ fres.height = b - t
    /\ DOMAIN fres.px = Coords(r - l, b - t)
    /\ \A q \in Coords(r - l, b - t) : fres.px[q] = fimg.px[<<q[1] + l, q[2] + t>>]

\* C9: trim_image returns the crop to the smallest half-open box around the
\* pixels with alpha > 0 (each border row and column of the box holds one) when
\* the image has an alpha channel and such a pixel; the input itself when every
\* pixel has alpha 0; and the input itself, the box being (0, 0, width, height),
\* when the image has no alpha channel.
C9_TrimToVisible ==
    fop = "trim" =>
        IF ~HasAlphaChannel(fimg)
        THEN get_alpha_bbox(fimg) = <<0, 0, fimg.width, fimg.height>> /\ fres = fimg
        ELSE IF Visible = {}
        THEN fres = fimg
        ELSE \E l \in 0 .. fimg.width - 1, t \in 0 .. fimg.height - 1 :
             \E r \in l + 1 .. fimg.width, b \in t + 1 .. fimg.height :
                /\ IsCropTo(l, t, r, b)
                /\ \A p \in Visible : l <= p[1] /\ p[1] < r /\ t <= p[2] /\ p[2] < b
                /\ \E p \in Visible : p[1] = l
                /\ \E p \in Visible : p[1] = r - 1
                /\ \E p \in Visible : p[2] = t
                /\ \E p \in Visible : p[2] = b - 1

\* a trim that removes a column and a row
C9_Witness ==
    /\ fop = "trim"
    /\ HasAlphaChannel(fimg)
    /\ Visible # {}
    /\ fres.width < fimg.width
    /\ fres.height < fimg.height

\* C7: pad_to_square returns a square of side max(w, h) in which the pixel
\* (x, y) of the input is at (x + (side-w) \div 2, y + (side-h) \div 2) and every
\* pixel outside the placed rectangle has alpha 0.
C7_PaddedCentered ==
    fop = "pad" =>
        LET w == fimg.width
            h == fimg.height
            side == IF w >= h THEN w ELSE h
            ox == (side - w) \div 2
            oy == (side - h) \div 2
        IN /\ fres.width = side
           /\ fres.height = side
           /\ DOMAIN fres.px = Coords(side, side)
           /\ \A p \in Coords(w, h) : fres.px[<<p[1] + ox, p[2] + oy>>] = InPx[p]
           /\ \A q \in Coords(side, side) :
                 <<q[1] - ox, q[2] - oy>> \notin Coords(w, h) => fres.px[q][4] = 0

-----------------------------------------------------------------------------
(* Properties of the stages of process_image (SpecPipe) *)

\* the decoded image as <<R, G, B, A>> tuples
DecodedPx == ConvertRGBA(OpenImage(fimg)).px

\* C8 as stated: with tolerance 0 process_image changes no pixel's alpha between
\* decoding and trimming.
C8_NoKeyingAtZero ==
    (fop = "keyed" /\ ftol = 0) =>
        \A p \in DOMAIN DecodedPx : fres.px[p][4] = DecodedPx[p][4]

\* C8 as amended: process_image runs the keyer at every tolerance; with tolerance
\* 0 the image handed to trim_image has alpha 0 at exactly the pixels whose R, G, B
\* equal those of pixel (0,0), when pixel (0,0) has alpha > 0, and is the decoded
\* image everywhere else and whenever pixel (0,0) has alpha 0.
C8_ExactMatchKeyedAtZero ==
    (fop = "keyed" /\ ftol = 0) =>
        /\ DOMAIN fres.px = DOMAIN DecodedPx
        /\ \A p \in DOMAIN DecodedPx :
              LET c == DecodedPx[p]
                  ref == DecodedPx[<<0, 0>>]
              IN IF ref[4] > 0 /\ c[1] = ref[1] /\ c[2] = ref[2] /\ c[3] = ref[3]
                 THEN fres.px[p] = <<c[1], c[2], c[3], 0>>
                 ELSE fres.px[p] = c

\* tolerance 0 made a visible pixel transparent and left another visible
C8_Witness ==
    /\ fop = "keyed"
    /\ ftol = 0
    /\ \E p \in DOMAIN DecodedPx : DecodedPx[p][4] > 0 /\ fres.px[p][4] = 0
    /\ \E p \in DOMAIN DecodedPx : DecodedPx[p][4] > 0 /\ fres.px[p] = DecodedPx[p]

-----------------------------------------------------------------------------
(* Properties of main (Spec) *)

FailedPos == {f.pos : f \in failed}

Attempted == called \cup skipped

Reported(f) ==
    \E k \in 1 .. Len(out) : out[k] = Line("Failed", pngs[f.pos].name, f.err, 0)

\* C1: a file whose processing fails at any step (decode, transform, directory
\* creation, write) is reported with its path and the error, every file after
\* it is still attempted (processed or skipped), and main returns 0.
C1_FailureIsolated ==
    /\ pc # "crashed"
    /\ \A f \in failed : Reported(f)
    /\ pc = "loop" => Attempted = 1 .. idx - 1
    /\ pc = "done" => exitCode = 0 /\ Attempted = 1 .. Len(pngs)

\* a run that returned after a file failed and a later file was saved
C1_Witness ==
    /\ pc = "done"
    /\ \E f \in failed : \E j \in called \ FailedPos :
          /\ j > f.pos
          /\ dst[pngs[j].name].state = "written"

\* C2 as stated: a file whose destination exists when the loop reaches it is,
\* with --overwrite unset, never handed to process_image and its destination is
\* as it was; with --overwrite set it is processed and the destination rewritten.
C2_SkipOrRewrite ==
    \A i \in 1 .. Len(reached) :
        Exists(reached[i]) =>
            IF ~args.overwrite
            THEN i \notin called /\ dst[pngs[i].name] = reached[i]
            ELSE i \in called /\ dst[pngs[i].name].state = "written"

\* C2 as amended: with --overwrite unset the file is never handed to
\* process_image and its destination is as it was; with --overwrite set
\* process_image is called for it, and the destination is rewritten when that
\* call raises no error.
C2_SkipOrRewriteOnSuccess ==
    \A i \in 1 .. Len(reached) :
        Exists(reached[i]) =>
            IF ~args.overwrite
            THEN i \notin called /\ dst[pngs[i].name] = reached[i]
            ELSE /\ i \in called
                 /\ i \notin FailedPos => dst[pngs[i].name].state = "written"

\* a finished run that skipped an existing destination and saved another file
C2_Witness ==
    /\ pc = "done"
    /\ ~args.overwrite
    /\ \E i \in skipped : Exists(reached[i]) /\ dst[pngs[i].name] = reached[i]
    /\ \E j \in called : dst[pngs[j].name].state = "written"

\* C3: every file the pipeline processes without a skip or an error ends with an
\* output image whose width and height are the configured size.
C3_OutputIsSizeSquare ==
    \A i \in called \ FailedPos :
        /\ dst[pngs[i].name].state = "written"
        /\ dst[pngs[i].name].image.width = args.size
        /\ dst[pngs[i].name].image.height = args.size

\* a saved output whose source image is not size x size
C3_Witness ==
    \E i \in called \ FailedPos :
        /\ dst[pngs[i].name].state = "written"
        /\ pngs[i].data.width * pngs[i].data.height # args.size * args.size

\* C4: with --quiet the only lines printed are the failure reports.
C4_QuietPrintsFailuresOnly ==
    args.quiet => \A k \in 1 .. Len(out) : out[k].kind = "Failed"

\* C5 as stated: a failure to create the destination directory ends the run: no
\* later file is attempted and main does not return.
C5_MkdirFailureFatal ==
    \A f \in failed :
        f.err = "mkdir" => pc = "crashed" /\ Attempted \subseteq 1 .. f.pos

\* C5 as amended: a failure to create the destination directory is handled as a
\* per-file error: it is reported with the file's path and the error, every later
\* file is still attempted, and main returns 0.
C5_MkdirFailureIsPerFile ==
    \A f \in failed :
        f.err = "mkdir" =>
            /\ pc # "crashed"
            /\ Reported(f)
            /\ pc = "loop" => f.pos + 1 .. idx - 1 \subseteq Attempted
            /\ pc = "done" => exitCode = 0 /\ f.pos + 1 .. Len(pngs) \subseteq Attempted

\* a run that returned 0 after the directory could not be created for a file
\* that is not the last
C5_Witness ==
    /\ pc = "done"
    /\ exitCode = 0
    /\ \E f \in failed : f.err = "mkdir" /\ f.pos < Len(pngs) /\ f.pos + 1 \in called

====
